---- MODULE Spec2Model ----
(***************************************************************************)
(* Model of the two realtime-transcriber blocks of elevenlabs-ui.          *)
(*                                                                         *)
(*   "sdk": blocks/realtime-transcriber-01/page.tsx, built on the          *)
(*          useScribe hook (toggle with Cmd/Ctrl+K);                       *)
(*   "ws" : the push-to-talk variant (src/unnamed/part_000) that talks to  *)
(*          a WebSocket proxy directly (hold Alt to record).               *)
(*                                                                         *)
(* A page mounts one of the two components; `mounted` says which one, and  *)
(* the variables of the other component stay at their initial values.      *)
(* React state is modelled as rendered: a handler reads the state of the   *)
(* latest update.  Timers (setTimeout) and promise completions are steps   *)
(* of their own that may be taken whenever they are pending.               *)
(*                                                                         *)
(* What the components call is modelled by its contract:                   *)
(*   useScribe: connect() puts the hook in status "connecting" and         *)
(*     settles later, resolved ("connected") or rejected; disconnect()     *)
(*     puts it in "disconnected" at once and does not settle a pending     *)
(*     connect(); clearTranscripts() empties partialTranscript and         *)
(*     finalTranscripts; transcripts are delivered while connected, errors *)
(*     while a session or a connect call exists.                           *)
(*   WebSocket: message events are delivered on an open socket only, the   *)
(*     first one being session_started; close() ends the delivery of       *)
(*     messages, the close event follows later with the code of the        *)
(*     server's close frame; an error event is followed by a close event.  *)
(***************************************************************************)
EXTENDS Integers, Sequences, FiniteSets, TLC

VARIABLES
    mounted,            \* "sdk" or "ws": the component on the page
    lastAct,            \* the handler branch that ran last, for the branches the
                        \* properties speak about ("other" for the rest)
    recording,          \* useState<RecordingState> of the mounted component
    \* ---- SDK component (page.tsx) ----
    scribe,             \* useScribe(): status, partialTranscript, finalTranscripts
    segmentStartMsRef,  \* "null" or "set" (the time stamp itself is abstracted)
    lastTranscriptRef,
    isOperatingRef,
    shouldBeConnectedRef,
    errorTimeoutRef,    \* "null" or the handle of the timer of the newest onError,
                        \* named by the message the timer will show
    errTimers,          \* error timers the runtime still has pending
    guardTimers,        \* pending 300 ms timers that reset isOperatingRef
    ops,                \* connect operations in progress: how many invocations of
                        \* handleToggleRecording wait at each await
    bottomControls,     \* the props <BottomControls> was last rendered with
    recorded,           \* history: the latency samples pushed since the last reset
    \* ---- WebSocket component (part_000) ----
    altDown,            \* the Alt key is physically held
    sess,               \* the sessions startRecording created and that are not
                        \* gone yet, oldest first
    audioContextRef,    \* "null" or "set" (processorRef is set and cleared with it)
    finalSeen           \* <<>> or <<t>>: the first final transcript since startRecording

sdkVars == <<scribe, segmentStartMsRef, lastTranscriptRef, isOperatingRef,
             shouldBeConnectedRef, errorTimeoutRef, errTimers, guardTimers, ops,
             bottomControls, recorded>>

wsVars == <<altDown, sess, audioContextRef, finalSeen>>

vars == <<mounted, lastAct, recording, sdkVars, wsVars>>

----------------------------------------------------------------------------
(* Bounds *)

MaxOps == 2          \* connect operations that may overlap
MaxGuardTimers == 1  \* pending guard-reset timers
MaxFinals == 2       \* committed segments per session
MaxSamples == 1      \* latency samples delivered between two resets
MaxSessions == 2     \* push-to-talk sessions whose stream or socket is not yet gone
MaxRecorded == 32    \* latency samples of one long session
MaxSpikes == 1       \* samples of a long session that are not the typical latency

(* Inputs *)
Texts == {"", "hi"}           \* transcript texts the backend may send
ErrMsgs == {"e1", "e2"}       \* messages of errors the SDK may report
Latencies == {10}             \* measured latencies, ms
LatencySamples == {1, 7}      \* latencies of a long session, ms: typical, spike
WsTexts == {"a", "b"}         \* transcripts the proxy may send
Targets == {"BODY", "INPUT", "TEXTAREA", "#document"}   \* e.target of a key event
CloseCodes == {1000, 1008}    \* event.code of a close event: normal, policy violation

(* Program constants *)
LatencyKeep == 29             \* latenciesMs.slice(-29): the samples kept on a push
PolicyViolation == 1008       \* close code handled by websocket.onclose
LatencyStep == 5              \* <BottomControls> re-renders on a change of 5 ms

SessIds == 1..MaxSessions
Act(n, a) == [name |-> n, arg |-> a]
Other == Act("other", "")

----------------------------------------------------------------------------
(* Pure helpers *)

\* Mutant: `a ?? b` in place of `a || b` (a string is never nullish).
JsOr_Nullish(a, b) == a

\* JavaScript `a || b` on strings: the empty string is falsy.
JsOr(a, b) == IF a # "" THEN a ELSE b

\* Array.prototype.slice(-n)
SliceLast(s, n) == IF Len(s) <= n THEN s ELSE SubSeq(s, Len(s) - n + 1, Len(s))

\* Mutant: the old samples are not sliced.
PushLatency_KeepAll(l, v) == Append(l, v)

\* [...prev.latenciesMs.slice(-29), latency]
PushLatency(l, v) == Append(SliceLast(l, LatencyKeep), v)

RECURSIVE Join(_, _)
\* Array.prototype.join(sep) on an array of strings
Join(s, sep) ==
    IF Len(s) = 0 THEN ""
    ELSE IF Len(s) = 1 THEN s[1]
    ELSE s[1] \o sep \o Join(Tail(s), sep)

isConnected == scribe.status = "connected"

\* Mutant: join() without an argument separates by a comma.
fullTranscript_DefaultSep == Join(scribe.finalTranscripts, ",")

fullTranscript == Join(scribe.finalTranscripts, " ")

sdkDisplayText == JsOr(JsOr(recording.error, scribe.partialTranscript), fullTranscript)

\* stableDisplayText: the ref is overwritten whenever it differs from displayText
stableDisplayText == sdkDisplayText

sdkHasContent == stableDisplayText # ""

RECURSIVE Sum(_)
\* latenciesMs.reduce((sum, v) => sum + v, 0)
Sum(l) == IF l = <<>> THEN 0 ELSE l[1] + Sum(Tail(l))

\* Math.round(x / n) for integers x >= 0, n > 0: halves round up
RoundDiv(x, n) == (2 * x + n) \div (2 * n)

\* Mutant: Math.floor in place of Math.round.
averageLatency_Floor ==
    IF Len(recording.latenciesMs) = 0 THEN 0
    ELSE Sum(recording.latenciesMs) \div Len(recording.latenciesMs)

averageLatency ==
    IF Len(recording.latenciesMs) = 0 THEN 0
    ELSE RoundDiv(Sum(recording.latenciesMs), Len(recording.latenciesMs))

Abs(x) == IF x < 0 THEN -x ELSE x

\* The props the component passes to <BottomControls> (isMac does not change
\* after the first effect; onStop is not compared).
BottomControlsProps ==
    [isConnected |-> isConnected, hasError |-> recording.error # "",
     averageLatency |-> averageLatency]

\* The comparison function of React.memo: TRUE skips the re-render.
BottomControlsSkips(prev, next) ==
    IF prev.isConnected # next.isConnected THEN FALSE
    ELSE IF prev.hasError # next.hasError THEN FALSE
    ELSE Abs(prev.averageLatency - next.averageLatency) < LatencyStep

\* The component re-renders after a handler ran. <LatencyBadge> is mounted
\* while isConnected && !hasError and is rendered exactly when
\* <BottomControls> is: a re-render that keeps it mounted comes from a change
\* of at least LatencyStep, which its own comparison (3 ms) lets through.
Render ==
    bottomControls' =
        IF BottomControlsSkips(bottomControls, BottomControlsProps')
        THEN bottomControls ELSE BottomControlsProps'

\* The badge is on the screen.
BadgeShown == bottomControls.isConnected /\ ~bottomControls.hasError

----------------------------------------------------------------------------
(* SDK component: initial state *)

\* Where an invocation of handleToggleRecording waits, and what the user did
\* meanwhile: "fetchingToggled" is a token fetch during which a toggle was
\* issued, "connectingDisc" a scribe.connect during which a disconnect was
\* requested.
OpStates == {"fetching", "fetchingToggled", "connecting", "connectingDisc"}

NumOps == ops["fetching"] + ops["fetchingToggled"] + ops["connecting"]
              + ops["connectingDisc"]

ConnectPending == ops["connecting"] + ops["connectingDisc"] > 0

SdkIdle ==
    /\ scribe = [status |-> "disconnected", partialTranscript |-> "",
                 finalTranscripts |-> <<>>]
    /\ segmentStartMsRef = "null"
    /\ lastTranscriptRef = ""
    /\ isOperatingRef = FALSE
    /\ shouldBeConnectedRef = FALSE
    /\ errorTimeoutRef = "null"
    /\ errTimers = {}
    /\ guardTimers = 0
    /\ ops = [k \in OpStates |-> 0]
    /\ bottomControls = [isConnected |-> FALSE, hasError |-> FALSE,
                         averageLatency |-> 0]
    /\ recorded = <<>>

WsIdle ==
    /\ altDown = FALSE
    /\ sess = <<>>
    /\ audioContextRef = "null"
    /\ finalSeen = <<>>

InitSdk ==
    /\ mounted = "sdk"
    /\ lastAct = Act("init", "")
    /\ recording = [error |-> "", latenciesMs |-> <<>>]
    /\ SdkIdle
    /\ WsIdle

\* The SDK component is the one mounted; the other one has no steps.
Sdk == mounted = "sdk" /\ UNCHANGED <<mounted, wsVars>>

----------------------------------------------------------------------------
(* SDK component: handleToggleRecording *)

\* Mutant: the ref is reset but clearTimeout is not called.
ClearErrorTimeout_NoClear ==
    /\ errTimers' = errTimers
    /\ errorTimeoutRef' = "null"

\* if (errorTimeoutRef.current) { clearTimeout(...); errorTimeoutRef.current = null }
ClearErrorTimeout ==
    /\ errTimers' = errTimers \ {errorTimeoutRef}
    /\ errorTimeoutRef' = "null"

\* scribe.disconnect(); scribe.clearTranscripts()
DisconnectAndClear ==
    [status |-> "disconnected", partialTranscript |-> "", finalTranscripts |-> <<>>]

\* A toggle was issued: remember it on the connect operations it overlaps.
MarkToggle(disconnecting) ==
    [k \in OpStates |->
        CASE k = "fetching" -> 0
          [] k = "fetchingToggled" -> ops["fetching"] + ops["fetchingToggled"]
          [] k = "connecting" -> IF disconnecting THEN 0 ELSE ops[k]
          [] k = "connectingDisc" ->
                IF disconnecting THEN ops["connecting"] + ops[k] ELSE ops[k]]

ToggleDisconnect ==
    /\ Sdk
    /\ isConnected \/ scribe.status = "connecting"
    /\ guardTimers < MaxGuardTimers
    /\ shouldBeConnectedRef' = FALSE
    /\ isOperatingRef' = TRUE
    /\ ClearErrorTimeout
    /\ scribe' = DisconnectAndClear
    /\ segmentStartMsRef' = "null"
    /\ recording' = [recording EXCEPT !.latenciesMs = <<>>, !.error = ""]
    /\ recorded' = <<>>
    /\ guardTimers' = guardTimers + 1
    /\ ops' = MarkToggle(TRUE)
    /\ lastAct' = Act("ToggleDisconnect", IF isOperatingRef THEN "guarded" ELSE "free")
    /\ UNCHANGED lastTranscriptRef
    /\ Render

\* Mutant: the operating guard is tested before the connection state.
ToggleIgnored_GuardFirst ==
    /\ Sdk
    /\ isOperatingRef
    /\ ops' = MarkToggle(FALSE)
    /\ lastAct' = Act("ToggleIgnored", "")
    /\ UNCHANGED <<scribe, recording, segmentStartMsRef, lastTranscriptRef,
                   isOperatingRef, shouldBeConnectedRef, errorTimeoutRef,
                   errTimers, guardTimers>>
    /\ UNCHANGED recorded
    /\ Render

ToggleIgnored ==
    /\ Sdk
    /\ ~(isConnected \/ scribe.status = "connecting")
    /\ isOperatingRef
    /\ ops' = MarkToggle(FALSE)
    /\ lastAct' = Act("ToggleIgnored", "")
    /\ UNCHANGED <<scribe, recording, segmentStartMsRef, lastTranscriptRef,
                   isOperatingRef, shouldBeConnectedRef, errorTimeoutRef,
                   errTimers, guardTimers>>
    /\ UNCHANGED recorded
    /\ Render

ToggleConnect ==
    /\ Sdk
    /\ ~(isConnected \/ scribe.status = "connecting")
    /\ ~isOperatingRef
    /\ NumOps < MaxOps
    /\ shouldBeConnectedRef' = TRUE
    /\ isOperatingRef' = TRUE
    /\ ClearErrorTimeout
    /\ recording' = [recording EXCEPT !.error = "", !.latenciesMs = <<>>]
    /\ recorded' = <<>>
    /\ segmentStartMsRef' = "null"
    /\ ops' = [MarkToggle(FALSE) EXCEPT !["fetching"] = 1]
    /\ lastAct' = Act("ToggleConnect",
                       IF errorTimeoutRef \in errTimers THEN "cleared" ELSE "")
    /\ UNCHANGED <<scribe, lastTranscriptRef, guardTimers>>
    /\ Render

handleToggleRecording ==
    \/ ToggleDisconnect
    \/ ToggleIgnored
    \/ ToggleConnect

\* setTimeout(() => { isOperatingRef.current = false }, 300)
GuardTimerFire ==
    /\ Sdk
    /\ guardTimers > 0
    /\ guardTimers' = guardTimers - 1
    /\ isOperatingRef' = FALSE
    /\ lastAct' = Other
    /\ UNCHANGED <<scribe, recording, segmentStartMsRef, lastTranscriptRef,
                   shouldBeConnectedRef, errorTimeoutRef, errTimers, ops>>
    /\ UNCHANGED recorded
    /\ Render

FetchStates == {"fetching", "fetchingToggled"}
ConnectStates == {"connecting", "connectingDisc"}

\* The continuation after `await getScribeToken()` of an operation waiting in
\* state k; the finally block runs on every exit of the try.
TokenCancelled(k) ==
    /\ Sdk
    /\ ops[k] > 0
    /\ ~shouldBeConnectedRef
    /\ isOperatingRef' = FALSE
    /\ ops' = [ops EXCEPT ![k] = @ - 1]
    /\ lastAct' = Other
    /\ UNCHANGED <<scribe, recording, segmentStartMsRef, lastTranscriptRef,
                   shouldBeConnectedRef, errorTimeoutRef, errTimers, guardTimers>>
    /\ UNCHANGED recorded
    /\ Render

\* The fetch returned an error or no token: throw, catch, finally.
TokenFailed(k) ==
    /\ Sdk
    /\ ops[k] > 0
    /\ shouldBeConnectedRef
    /\ shouldBeConnectedRef' = FALSE
    /\ recording' = [recording EXCEPT !.error = "Failed to get token"]
    /\ isOperatingRef' = FALSE
    /\ ops' = [ops EXCEPT ![k] = @ - 1]
    /\ lastAct' = Other
    /\ UNCHANGED <<scribe, segmentStartMsRef, lastTranscriptRef, errorTimeoutRef,
                   errTimers, guardTimers>>
    /\ UNCHANGED recorded
    /\ Render

\* The token arrived and scribe.connect(...) is called: the hook goes to "connecting".
TokenOk(k) ==
    /\ Sdk
    /\ ops[k] > 0
    /\ shouldBeConnectedRef
    /\ scribe' = [scribe EXCEPT !.status = "connecting"]
    /\ ops' = [ops EXCEPT ![k] = @ - 1, !["connecting"] = @ + 1]
    /\ lastAct' = Act("TokenOk", IF k = "fetchingToggled" THEN "toggled" ELSE "")
    /\ UNCHANGED <<recording, segmentStartMsRef, lastTranscriptRef, isOperatingRef,
                   shouldBeConnectedRef, errorTimeoutRef, errTimers, guardTimers>>
    /\ UNCHANGED recorded
    /\ Render

\* `await scribe.connect(...)` resolved: the session is up.
ConnectResolved(k) ==
    /\ Sdk
    /\ ops[k] > 0
    /\ IF ~shouldBeConnectedRef
       THEN /\ scribe' = DisconnectAndClear
            /\ segmentStartMsRef' = "null"
            /\ recording' = [recording EXCEPT !.latenciesMs = <<>>, !.error = ""]
            /\ recorded' = <<>>
       ELSE /\ scribe' = [scribe EXCEPT !.status = "connected"]
            /\ UNCHANGED <<segmentStartMsRef, recording, recorded>>
    /\ isOperatingRef' = FALSE
    /\ ops' = [ops EXCEPT ![k] = @ - 1]
    /\ lastAct' = Act("ConnectResolved",
                       IF k = "connectingDisc" THEN "cancelled" ELSE "wanted")
    /\ UNCHANGED <<lastTranscriptRef, shouldBeConnectedRef, errorTimeoutRef,
                   errTimers, guardTimers>>
    /\ Render

\* `await scribe.connect(...)` threw: catch, then finally.
ConnectRejected(k) ==
    /\ Sdk
    /\ ops[k] > 0
    /\ scribe' = [scribe EXCEPT !.status =
                     IF scribe.status = "connecting" THEN "error" ELSE @]
    /\ shouldBeConnectedRef' = FALSE
    /\ recording' = [recording EXCEPT !.error = "Failed to start recording"]
    /\ isOperatingRef' = FALSE
    /\ ops' = [ops EXCEPT ![k] = @ - 1]
    /\ lastAct' = Other
    /\ UNCHANGED <<segmentStartMsRef, lastTranscriptRef, errorTimeoutRef,
                   errTimers, guardTimers>>
    /\ UNCHANGED recorded
    /\ Render

----------------------------------------------------------------------------
(* SDK component: callbacks of the hook *)

\* The hook has a session, or a connect call pending, that can report an error.
SdkActive == scribe.status \in {"connecting", "connected"} \/ ConnectPending

onError(m) ==
    /\ Sdk
    /\ SdkActive
    /\ errTimers' = (errTimers \ {errorTimeoutRef}) \cup {m}
    /\ errorTimeoutRef' = m
    /\ lastAct' = Other
    /\ UNCHANGED <<scribe, recording, segmentStartMsRef, lastTranscriptRef,
                   isOperatingRef, shouldBeConnectedRef, guardTimers, ops>>
    /\ UNCHANGED recorded
    /\ Render

\* The 500 ms timer of onError fires.
ErrorTimerFire(m) ==
    /\ Sdk
    /\ m \in errTimers
    /\ errTimers' = errTimers \ {m}
    /\ recording' = [recording EXCEPT !.error = m]
    /\ lastAct' = Act("ErrorTimerFire", "")
    /\ UNCHANGED <<scribe, segmentStartMsRef, lastTranscriptRef, isOperatingRef,
                   shouldBeConnectedRef, errorTimeoutRef, guardTimers, ops>>
    /\ UNCHANGED recorded
    /\ Render

\* setInterval(..., 100) while scribe.isConnected
IntervalTick ==
    /\ Sdk
    /\ isConnected
    /\ segmentStartMsRef = "null"
    /\ segmentStartMsRef' = "set"
    /\ lastAct' = Other
    /\ UNCHANGED <<scribe, recording, lastTranscriptRef, isOperatingRef,
                   shouldBeConnectedRef, errorTimeoutRef, errTimers, guardTimers,
                   ops>>
    /\ UNCHANGED recorded
    /\ Render

onPartialTranscript(text, latency) ==
    /\ Sdk
    /\ isConnected
    /\ scribe' = [scribe EXCEPT !.partialTranscript = text]
    /\ IF text = lastTranscriptRef
       THEN UNCHANGED <<lastTranscriptRef, recording, recorded, segmentStartMsRef>>
       ELSE /\ lastTranscriptRef' = text
            /\ IF text # "" /\ segmentStartMsRef # "null"
               THEN /\ recording' = [recording EXCEPT
                          !.latenciesMs = PushLatency(@, latency)]
                    /\ recorded' = Append(recorded, latency)
                    /\ segmentStartMsRef' = "null"
               ELSE UNCHANGED <<recording, recorded, segmentStartMsRef>>
    /\ lastAct' = Other
    /\ UNCHANGED <<isOperatingRef, shouldBeConnectedRef, errorTimeoutRef,
                   errTimers, guardTimers, ops>>
    /\ Render

onFinalTranscript(text, latency) ==
    /\ Sdk
    /\ isConnected
    /\ Len(scribe.finalTranscripts) < MaxFinals
    /\ scribe' = [scribe EXCEPT !.partialTranscript = "",
                                !.finalTranscripts = Append(@, text)]
    /\ lastTranscriptRef' = ""
    /\ IF text # "" /\ segmentStartMsRef # "null"
       THEN /\ recording' = [recording EXCEPT !.latenciesMs = PushLatency(@, latency)]
            /\ recorded' = Append(recorded, latency)
       ELSE UNCHANGED <<recording, recorded>>
    /\ segmentStartMsRef' = "null"
    /\ lastAct' = Other
    /\ UNCHANGED <<isOperatingRef, shouldBeConnectedRef, errorTimeoutRef,
                   errTimers, guardTimers, ops>>
    /\ Render

\* The backend ends the session.
SessionDropped ==
    /\ Sdk
    /\ isConnected
    /\ scribe' = [scribe EXCEPT !.status = "disconnected"]
    /\ lastAct' = Other
    /\ UNCHANGED <<recording, segmentStartMsRef, lastTranscriptRef, isOperatingRef,
                   shouldBeConnectedRef, errorTimeoutRef, errTimers, guardTimers,
                   ops>>
    /\ UNCHANGED recorded
    /\ Render

\* The enumeration has room for another sample.
SampleRoom == mounted = "sdk" /\ Len(recording.latenciesMs) < MaxSamples

NextSdk ==
    \/ handleToggleRecording
    \/ GuardTimerFire
    \/ \E k \in FetchStates : TokenCancelled(k)
    \/ \E k \in FetchStates : TokenFailed(k)
    \/ \E k \in FetchStates : TokenOk(k)
    \/ \E k \in ConnectStates : ConnectResolved(k)
    \/ \E k \in ConnectStates : ConnectRejected(k)
    \/ \E m \in ErrMsgs : onError(m)
    \/ \E m \in ErrMsgs : ErrorTimerFire(m)
    \/ IntervalTick
    \/ \E t \in Texts, l \in Latencies : SampleRoom /\ onPartialTranscript(t, l)
    \/ \E t \in Texts, l \in Latencies : SampleRoom /\ onFinalTranscript(t, l)
    \/ SessionDropped

SpecSdk == InitSdk /\ [][NextSdk]_vars

----------------------------------------------------------------------------
(* SDK component: one user, long sessions *)

\* No connect operation or guard timer is pending: the user waits for the
\* effect of a toggle before the next one.
Settled == NumOps = 0 /\ guardTimers = 0

\* The typical latency is the smallest sample.
Typical == CHOOSE m \in LatencySamples : \A x \in LatencySamples : m <= x

Spikes == Cardinality({i \in DOMAIN recorded : recorded[i] # Typical})

\* The session has room for another sample of latency l.
LongSessionRoom(l) ==
    /\ Len(recorded) < MaxRecorded
    /\ l = Typical \/ Spikes < MaxSpikes

NextLatency ==
    \/ Settled /\ ToggleConnect
    \/ TokenOk("fetching")
    \/ ConnectResolved("connecting")
    \/ Settled /\ ToggleDisconnect
    \/ GuardTimerFire
    \/ IntervalTick
    \/ \E t \in Texts, l \in LatencySamples :
          LongSessionRoom(l) /\ onPartialTranscript(t, l)
    \/ \E t \in Texts \ {""}, l \in LatencySamples :
          LongSessionRoom(l) /\ onFinalTranscript(t, l)

SpecLatency == InitSdk /\ [][NextLatency]_vars

----------------------------------------------------------------------------
(* WebSocket component (push-to-talk) *)

InitWs ==
    /\ mounted = "ws"
    /\ lastAct = Act("init", "")
    /\ recording = [isRecording |-> FALSE, isProcessing |-> FALSE,
                    isConnecting |-> FALSE, transcript |-> "",
                    partialTranscript |-> "", error |-> ""]
    /\ SdkIdle
    /\ WsIdle

\* The WebSocket component is the one mounted; the other one has no steps.
Ws == mounted = "ws" /\ UNCHANGED <<mounted, sdkVars>>

displayText == JsOr(JsOr(recording.error, recording.partialTranscript), recording.transcript)

hasContent == displayText # ""

\* setRecording((prev) => ({ ...prev, ...updates }))
updateRecording(prev, updates) ==
    [f \in DOMAIN prev |-> IF f \in DOMAIN updates THEN updates[f] ELSE prev[f]]

\* A session is what one call of startRecording creates:
\*   pc     "gum" while getUserMedia is pending, then "idle";
\*   stream "none", "live" or "stopped" (its tracks);
\*   sock   "none", "open" (created), "started" (session_started received),
\*          "closing" (close() called), "failed" (after an error event), "closed";
\*   streamRef / websocketRef: streamRef.current / websocketRef.current is the
\*          stream / socket of this session.
NewSess == [pc |-> "gum", stream |-> "none", sock |-> "none",
            streamRef |-> FALSE, websocketRef |-> FALSE]

\* if (streamRef.current) { stop every track; streamRef.current = null }
cleanupStream(ss) ==
    [i \in DOMAIN ss |->
        IF ss[i].streamRef
        THEN [ss[i] EXCEPT !.stream = "stopped", !.streamRef = FALSE]
        ELSE ss[i]]

\* if (websocketRef.current) { websocketRef.current.close(); ... = null }.
\* close() starts the closing handshake of a socket that is not closed yet; no
\* message event is delivered on it afterwards, the close event is.
cleanupWebSocket(ss) ==
    [i \in DOMAIN ss |->
        IF ss[i].websocketRef
        THEN [ss[i] EXCEPT !.sock = IF @ \in {"open", "started"} THEN "closing" ELSE @,
                           !.websocketRef = FALSE]
        ELSE ss[i]]

\* Nothing of the session is left: no pending promise, no live stream, no socket
\* that can still deliver an event, and no ref holds it.
Gone(r) ==
    /\ r.pc = "idle"
    /\ r.stream \in {"none", "stopped"}
    /\ r.sock \in {"none", "closed"}
    /\ ~r.streamRef
    /\ ~r.websocketRef

Prune(ss) == SelectSeq(ss, LAMBDA r : ~Gone(r))

Idle == ~recording.isRecording /\ ~recording.isConnecting /\ ~recording.isProcessing

IsTextField(target) == target \in {"INPUT", "TEXTAREA"}

IsHTMLElement(target) == target # "#document"

\* The synchronous part of startRecording, up to `await getUserMedia(...)`.
startRecording ==
    /\ recording' = updateRecording(recording,
          [transcript |-> "", partialTranscript |-> "", error |-> "",
           isConnecting |-> TRUE])
    /\ sess' = Append(sess, NewSess)
    /\ finalSeen' = <<>>
    /\ UNCHANGED audioContextRef

stopRecording ==
    /\ audioContextRef' = "null"
    /\ sess' = Prune(cleanupStream(sess))
    /\ recording' = updateRecording(recording,
          [isRecording |-> FALSE, isProcessing |-> TRUE])
    /\ UNCHANGED finalSeen

\* A keydown event (also a key-repeat one); e.altKey is the state of Alt after it.
handleKeyDown(key, target) ==
    /\ Ws
    /\ altDown' = (altDown \/ key = "Alt")
    /\ IF altDown' /\ Idle /\ IsHTMLElement(target) /\ ~IsTextField(target)
       THEN /\ Len(sess) < MaxSessions
            /\ startRecording
            /\ lastAct' = Act("startRecording", target)
       ELSE /\ lastAct' = Other
            /\ UNCHANGED <<recording, sess, audioContextRef, finalSeen>>

\* A keyup event; e.altKey is the state of Alt after it.
handleKeyUp(key) ==
    /\ Ws
    /\ key = "Alt" => altDown
    /\ altDown' = (altDown /\ key # "Alt")
    /\ IF ~altDown' /\ recording.isRecording
       THEN /\ stopRecording
            /\ lastAct' = Act("stopRecording", "")
       ELSE /\ lastAct' = Other
            /\ UNCHANGED <<recording, sess, audioContextRef, finalSeen>>

\* getUserMedia resolved for session i: the stream is kept in streamRef, the
\* WebSocket is created, kept in websocketRef, and its handlers are installed.
GumResolved(i) ==
    /\ Ws
    /\ i \in DOMAIN sess
    /\ sess[i].pc = "gum"
    /\ sess' = Prune([j \in DOMAIN sess |->
                  IF j = i
                  THEN [pc |-> "idle", stream |-> "live", sock |-> "open",
                        streamRef |-> TRUE, websocketRef |-> TRUE]
                  ELSE [sess[j] EXCEPT !.streamRef = FALSE, !.websocketRef = FALSE]])
    /\ lastAct' = Other
    /\ UNCHANGED <<altDown, recording, audioContextRef, finalSeen>>

\* getUserMedia rejected for session i: the catch block of startRecording.
GumRejected(i) ==
    /\ Ws
    /\ i \in DOMAIN sess
    /\ sess[i].pc = "gum"
    /\ recording' = updateRecording(recording,
          [error |-> "Permission denied", isRecording |-> FALSE,
           isConnecting |-> FALSE])
    /\ sess' = Prune(cleanupWebSocket(cleanupStream([sess EXCEPT ![i].pc = "idle"])))
    /\ lastAct' = Other
    /\ UNCHANGED <<altDown, audioContextRef, finalSeen>>

\* websocket.onmessage, case "session_started": the first message of a socket.
SessionStarted(i) ==
    /\ Ws
    /\ i \in DOMAIN sess
    /\ sess[i].sock = "open"
    /\ sess' = [sess EXCEPT ![i].sock = "started"]
    /\ recording' = updateRecording(recording,
          [isConnecting |-> FALSE, isRecording |-> TRUE])
    /\ audioContextRef' = "set"
    /\ lastAct' = Other
    /\ UNCHANGED <<altDown, finalSeen>>

\* Mutant: a partial transcript also clears the error.
PartialTranscript_ClearsError(i, text) ==
    /\ Ws
    /\ i \in DOMAIN sess
    /\ sess[i].sock = "started"
    /\ recording' = updateRecording(recording,
          [partialTranscript |-> text, error |-> ""])
    /\ lastAct' = Act("partial_transcript", text)
    /\ UNCHANGED <<altDown, sess, audioContextRef, finalSeen>>

\* websocket.onmessage, case "partial_transcript"
PartialTranscript(i, text) ==
    /\ Ws
    /\ i \in DOMAIN sess
    /\ sess[i].sock = "started"
    /\ recording' = updateRecording(recording, [partialTranscript |-> text])
    /\ lastAct' = Act("partial_transcript", text)
    /\ UNCHANGED <<altDown, sess, audioContextRef, finalSeen>>

\* websocket.onmessage, case "final_transcript"
FinalTranscript(i, text) ==
    /\ Ws
    /\ i \in DOMAIN sess
    /\ sess[i].sock = "started"
    /\ recording' = updateRecording(recording,
          [transcript |-> text, partialTranscript |-> "", isProcessing |-> FALSE])
    /\ sess' = Prune(cleanupWebSocket(sess))
    /\ finalSeen' = IF finalSeen = <<>> THEN <<text>> ELSE finalSeen
    /\ lastAct' = Act("final_transcript", "")
    /\ UNCHANGED <<altDown, audioContextRef>>

\* websocket.onmessage, case "error"
ErrorMessage(i) ==
    /\ Ws
    /\ i \in DOMAIN sess
    /\ sess[i].sock \in {"open", "started"}
    /\ recording' = updateRecording(recording,
          [error |-> "Server error", isProcessing |-> FALSE,
           isRecording |-> FALSE, isConnecting |-> FALSE])
    /\ sess' = Prune(cleanupWebSocket(sess))
    /\ lastAct' = Other
    /\ UNCHANGED <<altDown, audioContextRef, finalSeen>>

\* websocket.onerror: the connection of socket i failed ("failed": no message is
\* delivered any more); its close event follows.
SocketError(i) ==
    /\ Ws
    /\ i \in DOMAIN sess
    /\ sess[i].sock \in {"open", "started"}
    /\ recording' = updateRecording(recording,
          [error |-> "Connection error", isRecording |-> FALSE,
           isConnecting |-> FALSE, isProcessing |-> FALSE])
    /\ sess' = Prune(cleanupWebSocket(cleanupStream([sess EXCEPT ![i].sock = "failed"])))
    /\ lastAct' = Other
    /\ UNCHANGED <<altDown, audioContextRef, finalSeen>>

\* websocket.onclose: the close event of socket i.  The close code is the one of
\* the server's close frame; a connection that failed reports another code.
SocketClose(i, code) ==
    /\ Ws
    /\ i \in DOMAIN sess
    /\ sess[i].sock \in {"open", "started", "closing", "failed"}
    /\ sess[i].sock = "failed" => code # PolicyViolation
    /\ sess' = Prune([sess EXCEPT ![i].sock = "closed"])
    /\ IF code = PolicyViolation
       THEN recording' = updateRecording(recording,
               [error |-> "Quota exceeded. Please try again later.",
                isRecording |-> FALSE, isConnecting |-> FALSE,
                isProcessing |-> FALSE])
       ELSE UNCHANGED recording
    /\ lastAct' = Other
    /\ UNCHANGED <<altDown, audioContextRef, finalSeen>>

NextWs ==
    \/ \E k \in {"Alt", "Other"}, t \in Targets : handleKeyDown(k, t)
    \/ \E k \in {"Alt", "Other"} : handleKeyUp(k)
    \/ \E i \in SessIds : GumResolved(i)
    \/ \E i \in SessIds : GumRejected(i)
    \/ \E i \in SessIds : SessionStarted(i)
    \/ \E i \in SessIds, t \in WsTexts : PartialTranscript(i, t)
    \/ \E i \in SessIds, t \in WsTexts : FinalTranscript(i, t)
    \/ \E i \in SessIds : ErrorMessage(i)
    \/ \E i \in SessIds : SocketError(i)
    \/ \E i \in SessIds, c \in CloseCodes : SocketClose(i, c)

SpecWs == InitWs /\ [][NextWs]_vars

\* A page with either component.
Init == InitSdk \/ InitWs

Next == NextSdk \/ NextWs

Spec == Init /\ [][Next]_vars

----------------------------------------------------------------------------
(* Properties *)

\* C1: at most one connect operation (from the start of the token fetch until
\* scribe.connect has settled) is in progress at any time.
C1_AtMostOneConnectOp == NumOps <= 1

\* C2: push-to-talk: whenever isRecording is true the Alt key is held, so a
\* release of Alt while connecting or recording prevents or ends the recording.
C2_RecordingOnlyWhileAltHeld ==
    mounted = "ws" => (recording.isRecording => altDown)

\* C3: once a final transcript has been processed, recording.transcript stays
\* equal to its text until the next startRecording.
C3_FinalTranscriptImmutable ==
    mounted = "ws" => (finalSeen # <<>> => recording.transcript = finalSeen[1])

\* The text the render shows first, by the priority error > partial > final.
Priority(error, partial, final) ==
    IF error # "" THEN error ELSE IF partial # "" THEN partial ELSE final

\* C4: in both components the text shown is the error if it is non-empty, else
\* the partial transcript if it is non-empty, else the final transcript (the
\* joined final transcripts in the SDK component), and the placeholder view
\* (no content) is shown exactly when all three are empty.
C4_DisplayPriority ==
    /\ mounted = "ws" =>
          /\ displayText = Priority(recording.error, recording.partialTranscript,
                                    recording.transcript)
          /\ ~hasContent <=> /\ recording.error = ""
                             /\ recording.partialTranscript = ""
                             /\ recording.transcript = ""
    /\ mounted = "sdk" =>
          /\ stableDisplayText = Priority(recording.error, scribe.partialTranscript,
                                          fullTranscript)
          /\ ~sdkHasContent <=> /\ recording.error = ""
                                /\ scribe.partialTranscript = ""
                                /\ fullTranscript = ""

\* An error, a partial and committed segments are all present: the error wins.
C4_Witness ==
    /\ mounted = "sdk"
    /\ recording.error # ""
    /\ scribe.partialTranscript # ""
    /\ fullTranscript # ""
    /\ stableDisplayText = recording.error

\* C5: a disconnect requested while scribe.connect is pending is honoured when
\* connect resolves: the session is disconnected again, the transcripts are
\* cleared, latenciesMs and error are reset.
C5_CancelledConnectIsUndone ==
    lastAct = Act("ConnectResolved", "cancelled") =>
        /\ scribe = DisconnectAndClear
        /\ recording.latenciesMs = <<>>
        /\ recording.error = ""

\* C6: an attempt whose token fetch overlapped a user toggle never reaches
\* scribe.connect.
C6_ToggleDuringFetchCancels == lastAct # Act("TokenOk", "toggled")

Toggles == {"ToggleDisconnect", "ToggleIgnored", "ToggleConnect"}

\* recording.error takes the message of an onError call only when its timer fires,
\* and the timer that fires is the one of the newest onError call.
ShownAfterDelay ==
    (recording'.error \in ErrMsgs /\ recording'.error # recording.error) =>
        /\ lastAct'.name = "ErrorTimerFire"
        /\ recording'.error \in errTimers
        /\ recording'.error = errorTimeoutRef

\* At most one error timer is pending: the one of the newest onError call.
OnlyLatestPending == errTimers' \subseteq {errorTimeoutRef'}

\* C7 (as stated): an onError message is shown only by its 500 ms timer, a newer
\* error replaces the pending one, and every toggle cancels the pending error.
C7_EveryToggleCancels ==
    [][/\ ShownAfterDelay
       /\ OnlyLatestPending
       /\ lastAct'.name \in Toggles => errTimers' = {}]_vars

\* C7 (amended): as above, for the toggles that are not ignored by the operating
\* guard, that is those that disconnect or start a connect attempt.
C7_ActingToggleCancels ==
    [][/\ ShownAfterDelay
       /\ OnlyLatestPending
       /\ lastAct'.name \in {"ToggleDisconnect", "ToggleConnect"} => errTimers' = {}]_vars

\* A toggle started a connect attempt and cleared an error timer that was pending.
C7_Witness ==
    /\ lastAct = Act("ToggleConnect", "cleared")
    /\ errTimers = {}
    /\ errorTimeoutRef = "null"
    /\ recording.error = ""

\* C8: a toggle issued while the hook is connected or connecting takes the
\* disconnect path whatever isOperatingRef is, and right after it
\* shouldBeConnectedRef is false, the session is disconnected, the transcripts
\* are cleared, latenciesMs and error are empty, segmentStartMsRef is null and
\* no error timer is pending.
C8_ToggleWhileConnectedDisconnects ==
    [][(lastAct'.name \in Toggles /\ (isConnected \/ scribe.status = "connecting")) =>
          /\ lastAct'.name = "ToggleDisconnect"
          /\ ~shouldBeConnectedRef'
          /\ scribe' = DisconnectAndClear
          /\ recording'.latenciesMs = <<>>
          /\ recording'.error = ""
          /\ segmentStartMsRef' = "null"
          /\ errorTimeoutRef' = "null"
          /\ errTimers' = {}]_vars

\* A disconnect was taken while the operating guard was held.
C8_Witness ==
    /\ lastAct = Act("ToggleDisconnect", "guarded")
    /\ isOperatingRef
    /\ scribe.status = "disconnected"

LiveStreams == {i \in DOMAIN sess : sess[i].stream = "live"}
LiveSockets == {i \in DOMAIN sess : sess[i].sock \in {"open", "started"}}

\* C9: a keydown starts a recording only when the component is idle and the
\* target is no INPUT or TEXTAREA, and at most one microphone stream and one
\* WebSocket are live at any time.
C9_OneSessionAtATime ==
    [][/\ lastAct'.name = "startRecording" =>
             Idle /\ lastAct'.arg \notin {"INPUT", "TEXTAREA"}
       /\ Cardinality(LiveStreams') <= 1
       /\ Cardinality(LiveSockets') <= 1]_vars

\* C10: a partial_transcript message replaces partialTranscript by its text and
\* leaves the other fields of the recording state as they are; a
\* final_transcript message resets partialTranscript to the empty string.
C10_PartialIsFrameLocal ==
    [][/\ lastAct'.name = "partial_transcript" =>
             recording' = [recording EXCEPT !.partialTranscript = lastAct'.arg]
       /\ lastAct'.name = "final_transcript" =>
             recording'.partialTranscript = ""]_vars

\* The partial hypothesis "b" is on display while recording.
C10_Witness ==
    /\ lastAct = Act("partial_transcript", "b")
    /\ recording.partialTranscript = "b"
    /\ recording.isRecording

RECURSIVE SpaceJoined(_)
\* The texts of s in order, a single space between two neighbours.
SpaceJoined(s) ==
    IF Len(s) = 0 THEN ""
    ELSE IF Len(s) = 1 THEN s[1]
    ELSE SpaceJoined(SubSeq(s, 1, Len(s) - 1)) \o " " \o s[Len(s)]

\* C11: the committed transcript is the texts of scribe.finalTranscripts joined
\* in order by a single space; a new final segment only extends it (the former
\* transcript stays a prefix), and the segments are dropped only by
\* clearTranscripts, on a disconnect or on a cancelled connect.
C11_CommittedTranscriptGrows ==
    [][/\ fullTranscript' = SpaceJoined(scribe'.finalTranscripts)
       /\ scribe'.finalTranscripts # scribe.finalTranscripts =>
             \/ \E t \in Texts :
                   /\ scribe'.finalTranscripts = Append(scribe.finalTranscripts, t)
                   /\ fullTranscript' =
                         IF scribe.finalTranscripts = <<>> THEN t
                         ELSE fullTranscript \o " " \o t
             \/ /\ scribe'.finalTranscripts = <<>>
                /\ scribe' = DisconnectAndClear
                /\ lastAct'.name \in {"ToggleDisconnect", "ConnectResolved"}]_vars

\* Two segments are committed and shown with one space between them.
C11_Witness ==
    /\ mounted = "sdk"
    /\ scribe.finalTranscripts = <<"hi", "hi">>
    /\ fullTranscript = "hi hi"

\* r is 0 for no samples, else an integer nearest to the arithmetic mean of l.
IsRoundedMean(r, l) ==
    IF Len(l) = 0 THEN r = 0 ELSE 2 * Abs(r * Len(l) - Sum(l)) <= Len(l)

ResetsLatency ==
    \/ lastAct.name \in {"ToggleDisconnect", "ToggleConnect"}
    \/ lastAct.name = "ConnectResolved" /\ scribe.status = "disconnected"

LastOf(s, n) ==
    LET m == IF Len(s) < n THEN Len(s) ELSE n
    IN  [i \in 1..m |-> s[Len(s) - m + i]]

\* C13: latenciesMs holds at most 30 samples, and they are exactly the most
\* recent samples recorded since the last reset, in arrival order.
C13_SlidingWindow ==
    mounted = "sdk" =>
        /\ Len(recording.latenciesMs) <= LatencyKeep + 1
        /\ recording.latenciesMs = LastOf(recorded, LatencyKeep + 1)

\* More samples were recorded than the window holds; the oldest one, a spike,
\* is no longer stored.
C13_Witness ==
    /\ mounted = "sdk"
    /\ Len(recorded) > LatencyKeep + 1
    /\ recorded[1] # Typical
    /\ Len(recording.latenciesMs) = LatencyKeep + 1
    /\ \A i \in DOMAIN recording.latenciesMs : recording.latenciesMs[i] = Typical

\* A callback of the socket of session i runs while a later session exists.
StaleSocketEvent(i) ==
    /\ i < Len(sess)
    /\ \/ SessionStarted(i)
       \/ \E t \in WsTexts : PartialTranscript(i, t)
       \/ \E t \in WsTexts : FinalTranscript(i, t)
       \/ ErrorMessage(i)
       \/ SocketError(i)
       \/ \E c \in CloseCodes : SocketClose(i, c)

\* C14: a message, error or close event of the socket of an earlier session
\* does not close the socket of the current (newest) session, does not stop its
\* microphone stream, and leaves isConnecting, isRecording, isProcessing and
\* error as they are.
C14_StaleEventsLeaveCurrentSession ==
    [][\A i \in SessIds :
          StaleSocketEvent(i) =>
             /\ sess' # <<>>
             /\ sess'[Len(sess')].sock = sess[Len(sess)].sock
             /\ sess'[Len(sess')].stream = sess[Len(sess)].stream
             /\ recording'.isConnecting = recording.isConnecting
             /\ recording'.isRecording = recording.isRecording
             /\ recording'.isProcessing = recording.isProcessing
             /\ recording'.error = recording.error]_vars

====
